---- MODULE Spec2Model ----
(***************************************************************************)
(* HeartMuLa Studio (src/gui.py): the file-system catalog of FileManager,  *)
(* the generation-job lifecycle of HeartMuLaStudio (generate_song, the     *)
(* run_generation worker thread, the after() callbacks) and the playback   *)
(* bar.  Text values are sequences of one-character strings, so that       *)
(* strip(), re.sub() and lower() are computed as the code computes them.   *)
(* A path inside one of the three catalog directories is represented by    *)
(* its stem; the empty sequence stands for None / the empty string.        *)
(***************************************************************************)
EXTENDS Integers, Sequences, FiniteSets, TLC

VARIABLES
  title_entry,            \* text of self.title_entry
  lyrics_textbox,         \* text of self.lyrics_textbox
  style_manual_entry,     \* text of self.style_manual_entry
  current_cover_path,     \* self.current_cover_path (None = <<>>)
  current_title,          \* self.current_title
  generating,             \* self.generating
  generate_btn,           \* state of self.generate_btn
  progress_bar,           \* value last given to self.progress_bar.set, in 1/total_steps
  songs,                  \* output/songs:    stem -> modification time
  covers,                 \* output/covers:   stem -> image
  metadata,               \* output/metadata: stem -> JSON object
  lyrics_txt,             \* assets/lyrics.txt (<<>> = not written yet)
  tags_txt,               \* assets/tags.txt   (<<>> = not written yet)
  clock,                  \* source of modification times
  threads,                \* live run_generation threads: job id -> frame
  njobs,                  \* number of threads started so far
  after_queue,            \* callbacks scheduled with after(0, ...), in order
  playlist,               \* self.playlist
  cards,                  \* the song cards shown in self.song_scroll
  current_playlist_index, \* self.current_playlist_index
  mixer,                  \* pygame.mixer: the music stream and the Sound channels
  busy_when_paused,       \* what get_busy() answers for a paused stream (pygame 1: TRUE)
  poll_pending,           \* pending after(100, update_audio_ui) timers
  last_poll,              \* history: what the last poll found and did
  last_noop,              \* history: the last handler call that returned without acting
  job_log                 \* history: job id -> exit code, exception, completions run

vars == <<title_entry, lyrics_textbox, style_manual_entry, current_cover_path,
          current_title, generating, generate_btn, progress_bar, songs, covers,
          metadata, lyrics_txt, tags_txt, clock, threads, njobs, after_queue,
          playlist, cards, current_playlist_index, mixer, busy_when_paused,
          poll_pending, last_poll, last_noop, job_log>>

formVars == <<title_entry, lyrics_textbox, style_manual_entry>>
fsVars == <<songs, covers, metadata, lyrics_txt, tags_txt, clock>>
jobVars == <<current_title, generating, generate_btn, progress_bar, threads,
             njobs, after_queue, job_log>>
playerVars == <<playlist, cards, current_playlist_index, mixer,
                busy_when_paused, poll_pending,
                 last_poll>>

----------------------------------------------------------------------------
(* Bounds of the model *)

MaxJobs == 2          \* generation requests accepted in one run
MaxLines == 1         \* output lines of one subprocess in Spec
MaxProgressLines == 52 \* output lines of one subprocess in SpecProgress
TrackLen == 2         \* length of every audio file, in half seconds
MaxDisplayLines == 3  \* output lines of one subprocess in SpecDisplay

----------------------------------------------------------------------------
(* Text *)

Letters == {"a", "b", "c", "d", "e", "f", "g", "h", "i", "j", "k", "l", "m",
            "n", "o", "p", "q", "r", "s", "t", "u", "v", "w", "x", "y", "z",
            "A", "B", "C", "D", "E", "F", "G", "H", "I", "J", "K", "L", "M",
            "N", "O", "P", "Q", "R", "S", "T", "U", "V", "W", "X", "Y", "Z"}
Digits == <<"0", "1", "2", "3", "4", "5", "6", "7", "8", "9">>
DigitSet == {Digits[i] : i \in 1..10}

None == << >>

IsSpace(c) == c \in {" ", "\n", "\t"}
IsWord(c) == c \in Letters \cup DigitSet \cup {"_"}

RECURSIVE LStrip(_)
LStrip(s) == IF s = << >> THEN s
             ELSE IF IsSpace(Head(s)) THEN LStrip(Tail(s)) ELSE s

RECURSIVE RStrip(_)
RStrip(s) == IF s = << >> THEN s
             ELSE IF IsSpace(s[Len(s)]) THEN RStrip(SubSeq(s, 1, Len(s) - 1))
             ELSE s

\* str.strip()
Strip(s) == RStrip(LStrip(s))

\* str.startswith(p)
StartsWith(s, p) == Len(s) >= Len(p) /\ SubSeq(s, 1, Len(p)) = p

\* p in s
Contains(s, p) ==
  \E i \in 1..(Len(s) - Len(p) + 1) : SubSeq(s, i, i + Len(p) - 1) = p

LowerOf == [c \in {"A", "B", "C", "D", "E", "F", "G", "H", "I", "J", "K", "L",
                   "M", "N", "O", "P", "Q", "R", "S", "T", "U", "V", "W", "X",
                   "Y", "Z"} |->
              CASE c = "A" -> "a" [] c = "B" -> "b" [] c = "C" -> "c"
                [] c = "D" -> "d" [] c = "E" -> "e" [] c = "F" -> "f"
                [] c = "G" -> "g" [] c = "H" -> "h" [] c = "I" -> "i"
                [] c = "J" -> "j" [] c = "K" -> "k" [] c = "L" -> "l"
                [] c = "M" -> "m" [] c = "N" -> "n" [] c = "O" -> "o"
                [] c = "P" -> "p" [] c = "Q" -> "q" [] c = "R" -> "r"
                [] c = "S" -> "s" [] c = "T" -> "t" [] c = "U" -> "u"
                [] c = "V" -> "v" [] c = "W" -> "w" [] c = "X" -> "x"
                [] c = "Y" -> "y" [] c = "Z" -> "z"]

\* str.lower()
Lower(s) == [i \in 1..Len(s) |-> IF s[i] \in DOMAIN LowerOf THEN LowerOf[s[i]]
                                 ELSE s[i]]

DigitValue(c) == (CHOOSE i \in 1..10 : Digits[i] = c) - 1

RECURSIVE NatOfDigits(_)
NatOfDigits(s) == IF s = << >> THEN 0
                  ELSE 10 * NatOfDigits(SubSeq(s, 1, Len(s) - 1))
                       + DigitValue(s[Len(s)])

AllDigits(s) == s # << >> /\ \A i \in 1..Len(s) : s[i] \in DigitSet

\* int(s): <<n>>, or << >> where int raises ValueError
ParseInt(s) ==
  LET t == Strip(s) IN
  IF t = << >> THEN << >>
  ELSE IF Head(t) = "-" /\ AllDigits(Tail(t)) THEN << 0 - NatOfDigits(Tail(t)) >>
  ELSE IF Head(t) = "+" /\ AllDigits(Tail(t)) THEN << NatOfDigits(Tail(t)) >>
  ELSE IF AllDigits(t) THEN << NatOfDigits(t) >>
  ELSE << >>

RECURSIVE StrOfNat(_)
StrOfNat(n) == IF n < 10 THEN << Digits[n + 1] >>
               ELSE StrOfNat(n \div 10) \o << Digits[(n % 10) + 1] >>

\* str(n) of an int
StrOfInt(n) == IF n < 0 THEN << "-" >> \o StrOfNat(0 - n) ELSE StrOfNat(n)

\* s.split("_")[1]: the text between the first and the second underscore
\* (<< >> with ok = FALSE where the index raises IndexError)
RECURSIVE UpToUnderscore(_)
UpToUnderscore(s) == IF s = << >> \/ Head(s) = "_" THEN << >>
                     ELSE << Head(s) >> \o UpToUnderscore(Tail(s))

SplitSecond(s) ==
  LET first == UpToUnderscore(s) IN
  IF Len(first) = Len(s) THEN [ok |-> FALSE, text |-> << >>]
  ELSE [ok |-> TRUE, text |-> UpToUnderscore(SubSeq(s, Len(first) + 2, Len(s)))]

UnknownPrefix == <<"U", "n", "k", "n", "o", "w", "n", "_">>
RemixSuffix == <<" ", "(", "R", "e", "m", "i", "x", ")">>
DefaultSafeTitle == <<"s", "o", "n", "g">>
TempCover == <<"t", "e", "m", "p", "_", "c", "o", "v", "e", "r">>
PlaceholderPrefix ==
  <<"E", "n", "t", "e", "r", " ", "y", "o", "u", "r", " ", "l", "y", "r", "i",
    "c", "s", " ", "h", "e", "r", "e">>
LyricsPlaceholder ==
  <<"E", "n", "t", "e", "r", " ", "y", "o", "u", "r", " ", "l", "y", "r", "i",
    "c", "s", " ", "h", "e", "r", "e", ".", ".", ".", "\n", "\n", "U", "s", "e",
    " ", "[", "v", "e", "r", "s", "e", "]", ",", " ", "[", "c", "h", "o", "r",
    "u", "s", "]", ",", " ", "[", "b", "r", "i", "d", "g", "e", "]", ",", " ",
    "[", "i", "n", "s", "t", "r", "u", "m", "e", "n", "t", "a", "l", "]", " ",
    "t", "a", "g", "s", " ", "t", "o", " ", "s", "t", "r", "u", "c", "t", "u",
    "r", "e", " ", "y", "o", "u", "r", " ", "s", "o", "n", "g", ".">>

----------------------------------------------------------------------------
(* Finite maps *)

With(f, k, v) == [x \in (DOMAIN f) \cup {k} |-> IF x = k THEN v ELSE f[x]]
Without(f, k) == [x \in (DOMAIN f) \ {k} |-> f[x]]

----------------------------------------------------------------------------
(* FileManager *)

total_steps == 100

\* Inputs of the model: what the user types, the images the user uploads,
\* the lines the subprocess prints.
TitleInputs == { << >>, <<"a", "!">>, <<"a", "_">>, <<"a", "/">> }
LyricsInputs == { <<"l", "a">>, <<" ">> }
StyleInputs == { << >>, <<"p", "o", "p">> }
Images == { "imgA" }
OutputLines ==
  { <<"S", "t", "e", "p", " ", "1", "/", "1", "0", "\n">>,
    <<"G", "E", "N", "E", "R", "A", "T", "I", "N", "G", " ", "a", "u", "d", "i", "o", "\n">>,
    <<"P", "r", "o", "g", "r", "e", "s", "s", ":", " ", "5", "0", "%", "\n">>,
    <<"l", "o", "a", "d", "i", "n", "g", " ", "m", "o", "d", "e", "l", "\n">> }

\* the lines printed in Spec: one that counts as progress, one that does not
JobLines ==
  { <<"S", "t", "e", "p", " ", "1", "/", "1", "0", "\n">>,
    <<"l", "o", "a", "d", "i", "n", "g", " ", "m", "o", "d", "e", "l", "\n">> }

\* A file name can be created inside a catalog directory: f"{title}.png" with a
\* "/" in it names a file in a directory that does not exist.
PathOK(name) == \A i \in 1..Len(name) : name[i] # "/"

MaxOf(S) == CHOOSE x \in S : \A y \in S : x >= y

UnknownNumbers(s) ==
  { ParseInt(SplitSecond(name).text)[1] :
      name \in { n \in DOMAIN s : /\ StartsWith(n, UnknownPrefix)
                                  /\ ParseInt(SplitSecond(n).text) # << >> } }

get_next_unknown_name(s) ==
  LET numbers == UnknownNumbers(s)
      next_num == IF numbers = {} THEN 1 ELSE MaxOf(numbers) + 1
  IN UnknownPrefix \o StrOfInt(next_num)

MetadataOf(title, lyrics, style, genre, song_type, cover_path) ==
  [title |-> title, lyrics |-> lyrics, style |-> style, genre |-> genre,
   type |-> song_type, cover_path |-> cover_path]

\* a save that keeps the file a title already has
SaveKeepsExisting(m, title, lyrics, style, genre, song_type, cover_path) ==
  IF title \in DOMAIN m THEN m
  ELSE With(m, title, MetadataOf(title, lyrics, style, genre, song_type, cover_path))

\* open(metadata_path, 'w') and json.dump: the file is created or replaced
save_metadata(m, title, lyrics, style, genre, song_type, cover_path) ==
  With(m, title, MetadataOf(title, lyrics, style, genre, song_type, cover_path))

\* << >> for None, <<object>> for a loaded object
load_metadata(m, title) == IF title \in DOMAIN m THEN << m[title] >> ELSE << >>

\* the order of the sort without reverse=True
ListedBeforeAscending(s, a, b) == s[a] <= s[b]

\* the order of sort(key=getmtime, reverse=True)
ListedBefore(s, a, b) == s[a] >= s[b]

RECURSIVE SortedTitles(_, _)
SortedTitles(s, S) ==
  IF S = {} THEN << >>
  ELSE LET first == CHOOSE x \in S : \A y \in S : ListedBefore(s, x, y)
       IN << first >> \o SortedTitles(s, S \ {first})

SongEntry(m, title) ==
  [title |-> title, wav_path |-> title, cover_path |-> title,
   metadata |-> load_metadata(m, title)]

get_all_songs(s, m) ==
  LET order == SortedTitles(s, DOMAIN s)
  IN [i \in 1..Len(order) |-> SongEntry(m, order[i])]

\* a deletion that unlinks nothing
DeleteNothing(f, title) == f

\* the file of the title in one of the three directories, unlinked if it exists
delete_song_files(f, title) == Without(f, title)

----------------------------------------------------------------------------
(* The form, the cover selection and the song list *)

\* the user edits one of the three text inputs; the edits are enumerated
\* where a later request can read them: between two jobs, while a further
\* request can still be made
type_title(t) ==
  /\ ~generating /\ njobs < MaxJobs
  /\ title_entry' = t
  /\ UNCHANGED <<lyrics_textbox, style_manual_entry, current_cover_path,
                 fsVars, jobVars, playerVars, last_noop>>

type_lyrics(l) ==
  /\ ~generating /\ njobs < MaxJobs
  /\ lyrics_textbox' = l
  /\ UNCHANGED <<title_entry, style_manual_entry, current_cover_path,
                 fsVars, jobVars, playerVars, last_noop>>

type_style(st) ==
  /\ ~generating /\ njobs < MaxJobs
  /\ style_manual_entry' = st
  /\ UNCHANGED <<title_entry, lyrics_textbox, current_cover_path,
                 fsVars, jobVars, playerVars, last_noop>>

\* upload_cover with a readable image chosen in the dialog, process_dropped_image
upload_cover(img) ==
  /\ current_cover_path' = TempCover
  /\ covers' = With(covers, TempCover, img)
  /\ UNCHANGED <<formVars, songs, metadata, lyrics_txt, tags_txt, clock,
                 jobVars, playerVars, last_noop>>

\* create_song_card raises on an entry whose metadata is None, after the
\* cover of the card is bound to play_song and before its menu exists: the
\* cards are those of the entries up to the first such entry.
FirstBad(list) ==
  IF \E i \in 1..Len(list) : list[i].metadata = << >>
  THEN CHOOSE i \in 1..Len(list) :
         /\ list[i].metadata = << >>
         /\ \A k \in 1..(i - 1) : list[k].metadata # << >>
  ELSE Len(list) + 1

CardsFor(list) ==
  LET bad == FirstBad(list)
      n == IF bad <= Len(list) THEN bad ELSE Len(list)
  IN [i \in 1..n |-> [song |-> list[i], menu |-> i # bad]]

\* load_existing_songs on the catalog (s, m)
PlaylistAfterLoad(s, m) ==
  IF get_all_songs(s, m) = << >> THEN playlist ELSE get_all_songs(s, m)

CardsAfterLoad(s, m) == CardsFor(get_all_songs(s, m))

load_existing_songs ==
  /\ playlist' = PlaylistAfterLoad(songs, metadata)
  /\ cards' = CardsAfterLoad(songs, metadata)
  /\ UNCHANGED <<formVars, current_cover_path, fsVars, jobVars,
                 current_playlist_index, mixer, busy_when_paused, poll_pending,
                 last_poll, last_noop>>

RemixDescription(md) ==
  LET withGenre == IF md.genre # << >>
                   THEN (IF md.style # << >> THEN md.style \o <<",", " ">> \o md.genre
                         ELSE md.genre)
                   ELSE md.style
  IN IF md.type # << >>
     THEN (IF withGenre # << >> THEN withGenre \o <<",", " ">> \o md.type
           ELSE md.type)
     ELSE withGenre

\* "Remix / Edit" in the menu of card c
remix_song(c) ==
  /\ cards[c].menu
  /\ cards[c].song.metadata # << >>
  /\ LET song == cards[c].song
         md == song.metadata[1]
     IN /\ title_entry' = song.title \o RemixSuffix
        /\ lyrics_textbox' = md.lyrics
        /\ style_manual_entry' = RemixDescription(md)
        /\ current_cover_path' =
             IF md.cover_path # None /\ md.cover_path \in DOMAIN covers
             THEN md.cover_path ELSE current_cover_path
  /\ UNCHANGED <<fsVars, jobVars, playerVars, last_noop>>

\* "Move To Trash" in the menu of card c, answered yes or no
delete_song(c, yes) ==
  /\ cards[c].menu
  /\ LET title == cards[c].song.title
         s == IF yes THEN delete_song_files(songs, title) ELSE songs
         cv == IF yes THEN delete_song_files(covers, title) ELSE covers
         m == IF yes THEN delete_song_files(metadata, title) ELSE metadata
     IN /\ songs' = s
        /\ covers' = cv
        /\ metadata' = m
        /\ playlist' = IF yes THEN PlaylistAfterLoad(s, m) ELSE playlist
        /\ cards' = IF yes THEN CardsAfterLoad(s, m) ELSE cards
  /\ last_noop' = IF yes THEN last_noop ELSE "delete_song"
  /\ UNCHANGED <<formVars, current_cover_path, lyrics_txt, tags_txt, clock,
                 jobVars, current_playlist_index, mixer, busy_when_paused,
                 poll_pending, last_poll>>

----------------------------------------------------------------------------
(* The generation job: generate_song, the run_generation thread, the       *)
(* callbacks it schedules with after(0, ...)                               *)

ProgressCallback(j, p) == [kind |-> "progress", job |-> j, p |-> p, success |-> FALSE]

\* a completion that always reports success
CompleteAlwaysTrue(j, ok) == [kind |-> "complete", job |-> j, p |-> 0, success |-> TRUE]

CompleteCallback(j, ok) == [kind |-> "complete", job |-> j, p |-> 0, success |-> ok]

LyricsFlag == "--lyrics=assets/lyrics.txt"
TagsFlag == "--tags=assets/tags.txt"

\* generate_song without its early return
GenerateAlways == TRUE

\* the early return of generate_song
GenerateAccepted == ~generating

\* re.sub(r'[^\w\s-]', '_', title).strip(), "song" if that is empty
SafeTitle(title) ==
  LET sub == [i \in 1..Len(title) |->
                IF IsWord(title[i]) \/ IsSpace(title[i]) \/ title[i] = "-"
                THEN title[i] ELSE "_"]
      stripped == Strip(sub)
  IN IF stripped = << >> THEN DefaultSafeTitle ELSE stripped

\* the title a request runs under: the stripped input, or the next Unknown_N
RequestTitle == IF Strip(title_entry) = << >> THEN get_next_unknown_name(songs)
                ELSE Strip(title_entry)

\* the textbox text (Tk appends a newline), stripped; the placeholder counts as none
RequestLyrics ==
  LET lyrics == Strip(lyrics_textbox \o << "\n" >>)
  IN IF StartsWith(lyrics, PlaceholderPrefix) THEN << >> ELSE lyrics

RequestStyle == Strip(style_manual_entry)

\* the frame of a run_generation thread: its arguments, its locals, and as
\* history the cover selection at the moment the request was accepted
\* (accepted_cover), which the thread is not given
NewFrame(title, lyrics, style) ==
  [pc |-> "start", title |-> title, lyrics |-> lyrics, style |-> style,
   save_path |-> << >>, args |-> {}, current_step |-> 0, lines_read |-> 0,
   line |-> << >>,
   returncode |-> 0, expected_file |-> << >>, cover_path |-> None,
   selected |-> FALSE, placed |-> "none",
   accepted_cover |-> current_cover_path]

\* what is remembered of a job: how the subprocess exited, whether the
\* thread raised, whether a cover was selected, what the thread did with the
\* cover (none, moved, created), whether it saved metadata, the
\* generation_complete calls made for it, the title and lyrics it ran with,
\* and whether the title input was empty (untitled)
NewLog(title, lyrics, untitled) ==
  [returncode |-> -1, raised |-> FALSE, selected |-> FALSE, placed |-> "none",
   saved |-> FALSE, completions |-> << >>, title |-> title, lyrics |-> lyrics,
   untitled |-> untitled]

\* a press while generating that resets the progress display
PressResetsProgress ==
  /\ progress_bar' = 0
  /\ UNCHANGED <<formVars, current_title, generating, generate_btn, njobs,
                 threads, job_log>>

\* lines 935-936: the return while a job is outstanding
PressIgnored ==
  UNCHANGED <<formVars, current_title, generating, generate_btn, progress_bar,
              njobs, threads, job_log>>

\* line 967: self.progress_bar.set(0)
ProgressAtStart(shown) == 0

generate_song ==
  /\ njobs < MaxJobs
  /\ IF GenerateAccepted
     THEN /\ title_entry' = IF Strip(title_entry) = << >> THEN RequestTitle
                            ELSE title_entry
          /\ generating' = TRUE
          /\ current_title' = RequestTitle
          /\ generate_btn' = "disabled"
          /\ progress_bar' = ProgressAtStart(progress_bar)
          /\ njobs' = njobs + 1
          /\ threads' = With(threads, njobs + 1,
                             NewFrame(RequestTitle, RequestLyrics, RequestStyle))
          /\ job_log' = With(job_log, njobs + 1,
                             NewLog(RequestTitle, RequestLyrics,
                                    Strip(title_entry) = << >>))
          /\ UNCHANGED <<lyrics_textbox, style_manual_entry, last_noop>>
     ELSE /\ PressIgnored
          /\ last_noop' = "generate_song"
  /\ UNCHANGED <<current_cover_path, fsVars, after_queue, playerVars>>

\* both flags appended whatever the request holds
SideFileArgsAlways(lyrics, style) == {LyricsFlag, TagsFlag}

\* the arguments appended for the side-files
SideFileArgs(lyrics, style) ==
  (IF lyrics # << >> THEN {LyricsFlag} ELSE {})
  \cup (IF style # << >> THEN {TagsFlag} ELSE {})

\* a callback put in front of the callbacks already scheduled
ScheduleFirst(q, cb) == << cb >> \o q

\* self.after(0, callback): the callbacks run in the order they were scheduled
Schedule(q, cb) == Append(q, cb)

\* a thread that schedules no callback when the subprocess failed
ThreadEndsFailureUnreported(j, ok, raised) ==
  /\ threads' = Without(threads, j)
  /\ after_queue' = IF ok \/ raised THEN Append(after_queue, CompleteCallback(j, ok))
                    ELSE after_queue
  /\ job_log' = [job_log EXCEPT ![j].raised = raised,
                                ![j].returncode = threads[j].returncode,
                                ![j].selected = threads[j].selected,
                                ![j].placed = threads[j].placed,
                                ![j].saved = ok]

\* the thread ends: its frame is gone, the callback is scheduled
ThreadEnds(j, ok, raised) ==
  /\ threads' = Without(threads, j)
  /\ after_queue' = Schedule(after_queue, CompleteCallback(j, ok))
  /\ job_log' = [job_log EXCEPT ![j].raised = raised,
                                ![j].returncode = threads[j].returncode,
                                ![j].selected = threads[j].selected,
                                ![j].placed = threads[j].placed,
                                ![j].saved = ok]

\* lines 980-1038: the command line, the two side-files, Popen
rg_launch(j) ==
  /\ threads[j].pc = "start"
  /\ LET f == threads[j] IN
     /\ lyrics_txt' = IF f.lyrics # << >> THEN f.lyrics ELSE lyrics_txt
     /\ tags_txt' = IF f.style # << >> THEN f.style ELSE tags_txt
     /\ threads' = [threads EXCEPT ![j].pc = "running",
                                   ![j].save_path = SafeTitle(f.title),
                                   ![j].args = SideFileArgs(f.lyrics, f.style)]
  /\ UNCHANGED <<formVars, current_cover_path, songs, covers, metadata, clock,
                 current_title, generating, generate_btn, progress_bar, njobs,
                 after_queue, job_log, playerVars, last_noop>>

\* the test of line 1045
LineCounts(line) ==
  \/ Contains(Lower(line), <<"s", "t", "e", "p">>)
  \/ Contains(Lower(line), <<"g", "e", "n", "e", "r", "a", "t", "i", "n", "g">>)
  \/ Contains(Lower(line), <<"p", "r", "o", "g", "r", "e", "s", "s">>)

Min(a, b) == IF a <= b THEN a ELSE b

\* the counter without its cap
NextStepUncapped(current_step) == current_step + 2

\* line 1046
NextStep(current_step) == Min(current_step + 2, total_steps)

\* lines 1043-1048: one line of the subprocess's output
ReadLine(j, line, bound) ==
  /\ threads[j].pc = "running"
  /\ threads[j].lines_read < bound
  /\ LET stripped == Strip(line)
         step == IF LineCounts(stripped) THEN NextStep(threads[j].current_step)
                 ELSE threads[j].current_step
     IN /\ threads' = [threads EXCEPT ![j].current_step = step,
                                      ![j].lines_read = @ + 1,
                                      ![j].line = stripped]
        /\ after_queue' = IF LineCounts(stripped)
                          THEN Schedule(after_queue, ProgressCallback(j, step))
                          ELSE after_queue
  /\ UNCHANGED <<formVars, current_cover_path, fsVars, current_title, generating,
                 generate_btn, progress_bar, njobs, job_log, playerVars,
                 last_noop>>

rg_read_line(j, line) == ReadLine(j, line, MaxLines)

\* the end of the output and process.wait(): the subprocess has exited with
\* code rc; with code zero it has written its audio file at save_path
\* (wrote) or has written none
rg_wait(j, rc, wrote) ==
  /\ threads[j].pc = "running"
  /\ threads' = [threads EXCEPT ![j].pc = "exited", ![j].returncode = rc]
  /\ IF rc = 0 /\ wrote
     THEN /\ songs' = With(songs, threads[j].save_path, clock + 1)
          /\ clock' = clock + 1
     ELSE UNCHANGED <<songs, clock>>
  /\ UNCHANGED <<formVars, current_cover_path, covers, metadata, lyrics_txt,
                 tags_txt, current_title, generating, generate_btn, progress_bar,
                 njobs, after_queue, job_log, playerVars, last_noop>>

\* lines 1053-1058: the file taken as the job's output
ExpectedFile(save_path) ==
  IF save_path \in DOMAIN songs \/ DOMAIN songs = {} THEN save_path
  ELSE SortedTitles(songs, DOMAIN songs)[1]

\* the exit code ignored
ExitedAny(returncode) == TRUE

\* line 1052
ExitedOk(returncode) == returncode = 0

\* lines 1052-1058 and 1084-1085
rg_returncode(j) ==
  /\ threads[j].pc = "exited"
  /\ IF ExitedOk(threads[j].returncode)
     THEN /\ threads' = [threads EXCEPT
                           ![j].pc = "cover",
                           ![j].expected_file = ExpectedFile(threads[j].save_path)]
          /\ UNCHANGED <<after_queue, job_log>>
     ELSE ThreadEnds(j, FALSE, FALSE)
  /\ UNCHANGED <<formVars, current_cover_path, fsVars, current_title, generating,
                 generate_btn, progress_bar, njobs, playerVars, last_noop>>


\* os.rename(src, dst) inside output/covers
RenameCover(cv, src, dst) ==
  IF src = dst THEN cv ELSE With(Without(cv, src), dst, cv[src])

\* lines 1060-1061 and 1066-1068: the test of self.current_cover_path, and the
\* placeholder of generate_random_gradient_cover when it is not set
rg_cover_branch(j) ==
  /\ threads[j].pc = "cover"
  /\ IF current_cover_path # None
     THEN /\ threads' = [threads EXCEPT ![j].pc = "exists", ![j].selected = TRUE]
          /\ UNCHANGED <<covers, after_queue, job_log>>
     ELSE IF PathOK(threads[j].title)
     THEN /\ covers' = With(covers, threads[j].title, "gradient")
          /\ threads' = [threads EXCEPT ![j].pc = "meta",
                                        ![j].cover_path = threads[j].title,
                                        ![j].placed = "created"]
          /\ UNCHANGED <<after_queue, job_log>>
     ELSE /\ ThreadEnds(j, FALSE, TRUE)
          /\ UNCHANGED covers
  /\ UNCHANGED <<formVars, current_cover_path, songs, metadata, lyrics_txt,
                 tags_txt, clock, current_title, generating, generate_btn,
                 progress_bar, njobs, playerVars, last_noop>>

\* lines 1062-1063 and 1065: os.path.exists(self.current_cover_path)
rg_cover_exists(j) ==
  /\ threads[j].pc = "exists"
  /\ IF current_cover_path = None
     THEN ThreadEnds(j, FALSE, TRUE)
     ELSE /\ threads' = IF current_cover_path \in DOMAIN covers
                        THEN [threads EXCEPT ![j].pc = "rename"]
                        ELSE [threads EXCEPT ![j].pc = "meta",
                                             ![j].cover_path = threads[j].title]
          /\ UNCHANGED <<after_queue, job_log>>
  /\ UNCHANGED <<formVars, current_cover_path, fsVars, current_title, generating,
                 generate_btn, progress_bar, njobs, playerVars, last_noop>>

\* lines 1064-1065: os.rename(self.current_cover_path, final_cover_path)
rg_cover_rename(j) ==
  /\ threads[j].pc = "rename"
  /\ IF /\ current_cover_path # None
        /\ current_cover_path \in DOMAIN covers
        /\ PathOK(threads[j].title)
     THEN /\ covers' = RenameCover(covers, current_cover_path, threads[j].title)
          /\ threads' = [threads EXCEPT ![j].pc = "meta",
                                        ![j].cover_path = threads[j].title,
                                        ![j].placed = "moved"]
          /\ UNCHANGED <<after_queue, job_log>>
     ELSE /\ ThreadEnds(j, FALSE, TRUE)
          /\ UNCHANGED covers
  /\ UNCHANGED <<formVars, current_cover_path, songs, metadata, lyrics_txt,
                 tags_txt, clock, current_title, generating, generate_btn,
                 progress_bar, njobs, playerVars, last_noop>>

\* lines 1070-1083: save_metadata, then the callback of success
rg_save_metadata(j) ==
  /\ threads[j].pc = "meta"
  /\ IF PathOK(threads[j].title)
     THEN /\ metadata' = save_metadata(metadata, threads[j].title,
                                       threads[j].lyrics, threads[j].style,
                                       << >>, << >>, threads[j].cover_path)
          /\ ThreadEnds(j, TRUE, FALSE)
     ELSE /\ ThreadEnds(j, FALSE, TRUE)
          /\ UNCHANGED metadata
  /\ UNCHANGED <<formVars, current_cover_path, songs, covers, lyrics_txt,
                 tags_txt, clock, current_title, generating, generate_btn,
                 progress_bar, njobs, playerVars, last_noop>>

\* update_generation_progress(p, line)
update_generation_progress(cb) ==
  /\ progress_bar' = cb.p
  /\ UNCHANGED <<formVars, current_cover_path, fsVars, current_title, generating,
                 generate_btn, threads, njobs, job_log, playerVars,
                 last_noop>>

\* generation_complete(success)
generation_complete(cb) ==
  /\ generating' = FALSE
  /\ generate_btn' = "normal"
  /\ job_log' = [job_log EXCEPT ![cb.job].completions = Append(@, cb.success)]
  /\ IF cb.success
     THEN /\ title_entry' = << >>
          /\ lyrics_textbox' = LyricsPlaceholder
          /\ style_manual_entry' = << >>
          /\ current_cover_path' = None
          /\ playlist' = PlaylistAfterLoad(songs, metadata)
          /\ cards' = CardsAfterLoad(songs, metadata)
     ELSE UNCHANGED <<formVars, current_cover_path, playlist, cards>>
  /\ UNCHANGED <<fsVars, current_title, progress_bar, threads, njobs,
                 current_playlist_index, mixer, busy_when_paused, poll_pending,
                 last_poll, last_noop>>

\* the event loop runs the oldest callback scheduled with after(0, ...)
run_callback ==
  /\ after_queue # << >>
  /\ after_queue' = Tail(after_queue)
  /\ IF Head(after_queue).kind = "progress"
     THEN update_generation_progress(Head(after_queue))
     ELSE generation_complete(Head(after_queue))

----------------------------------------------------------------------------
(* Playback: pygame.mixer.music is the one music stream; a Sound object    *)
(* plays on a channel of its own only when its play() is called.           *)

SeekValues == {0, 50, 100}

IdleMixer == [music |-> None, state |-> "stopped", pos |-> 0, elapsed |-> 0,
              channels |-> {}]

\* pygame.mixer.music.get_busy()
get_busy == \/ mixer.state = "playing"
            \/ mixer.state = "paused" /\ busy_when_paused

\* the streams that hold the audio device
ActiveStreams(mx) ==
  (IF mx.state \in {"playing", "paused"} THEN 1 ELSE 0) + Cardinality(mx.channels)

\* the file played as a Sound on a channel of its own, the music stream left
\* as it is
SoundPlay(mx, path) ==
  IF path \in DOMAIN songs THEN [mx EXCEPT !.channels = @ \cup {path}] ELSE mx

\* pygame.mixer.music.load(path); pygame.mixer.music.play(): load raises on a
\* missing file and leaves the stream as it was; otherwise the stream that was
\* loaded is freed and the new one plays from its start
MusicLoadAndPlay(mx, path) ==
  IF path \in DOMAIN songs
  THEN [mx EXCEPT !.music = path, !.state = "playing", !.pos = 0, !.elapsed = 0]
  ELSE mx

\* pygame.mixer.music.play(start=position): restarts the loaded stream; where
\* the position cannot be set (ok = FALSE) the stream is halted
MusicPlayFrom(mx, position, ok) ==
  IF mx.music = None THEN mx
  ELSE IF ok THEN [mx EXCEPT !.state = "playing", !.pos = position, !.elapsed = 0]
  ELSE [mx EXCEPT !.state = "stopped", !.pos = 0, !.elapsed = 0]

\* lines 1366-1394; index is the Python index, from 0
PlaySong(index) ==
  IF index >= Len(playlist)
  THEN UNCHANGED <<current_playlist_index, mixer>>
  ELSE /\ current_playlist_index' = index
       /\ mixer' = MusicLoadAndPlay(mixer, playlist[index + 1].wav_path)

\* a click on the cover of card c
play_song(c) ==
  /\ c \in 1..Len(cards)
  /\ PlaySong(c - 1)
  /\ UNCHANGED <<formVars, current_cover_path, fsVars, jobVars, playlist, cards,
                 busy_when_paused, poll_pending,
                 last_poll, last_noop>>

\* the index toggle_playback plays when no stream is busy (lines 1416-1417)
ToggleIndex ==
  IF current_playlist_index >= Len(playlist) \/ current_playlist_index < 0
  THEN Len(playlist) - 1 ELSE current_playlist_index

toggle_playback ==
  /\ IF playlist = << >>
     THEN UNCHANGED <<current_playlist_index, mixer>>
     ELSE IF get_busy
     THEN /\ mixer' = IF mixer.state = "playing"
                      THEN [mixer EXCEPT !.state = "paused"] ELSE mixer
          /\ UNCHANGED current_playlist_index
     ELSE /\ current_playlist_index' = ToggleIndex
          /\ mixer' = MusicLoadAndPlay(mixer, playlist[ToggleIndex + 1].wav_path)
  /\ UNCHANGED <<formVars, current_cover_path, fsVars, jobVars, playlist, cards,
                 busy_when_paused, poll_pending,
                 last_poll, last_noop>>

\* lines 1431 and 1437
PreviousIndexOf(i, n) == (i - 1) % n
NextIndexOf(i, n) == (i + 1) % n

PreviousIndex == PreviousIndexOf(current_playlist_index, Len(playlist))
NextIndex == NextIndexOf(current_playlist_index, Len(playlist))

previous_song ==
  /\ IF playlist # << >>
     THEN PlaySong(PreviousIndex) /\ UNCHANGED last_noop
     ELSE /\ UNCHANGED <<current_playlist_index, mixer>>
          /\ last_noop' = "previous_song"
  /\ UNCHANGED <<formVars, current_cover_path, fsVars, jobVars, playlist, cards,
                 busy_when_paused, poll_pending, last_poll>>

next_song ==
  /\ IF playlist # << >>
     THEN PlaySong(NextIndex) /\ UNCHANGED last_noop
     ELSE /\ UNCHANGED <<current_playlist_index, mixer>>
          /\ last_noop' = "next_song"
  /\ UNCHANGED <<formVars, current_cover_path, fsVars, jobVars, playlist, cards,
                 busy_when_paused, poll_pending, last_poll>>

\* self.playlist[self.current_playlist_index] does not raise IndexError
IndexInRange == current_playlist_index < Len(playlist)

\* lines 1440-1446: the Sound of the current entry gives the length, the music
\* stream is restarted at the position; every exception is swallowed
seek_audio(value, ok) ==
  /\ mixer' = IF IndexInRange
                 /\ playlist[current_playlist_index + 1].wav_path \in DOMAIN songs
              THEN MusicPlayFrom(mixer, (value * TrackLen) \div 100, ok)
              ELSE mixer
  /\ UNCHANGED <<formVars, current_cover_path, fsVars, jobVars, playlist, cards,
                 current_playlist_index, busy_when_paused, poll_pending,
                 last_poll, last_noop>>

\* line 1487, in half seconds: position >= length - 0.5, where position is
\* get_pos(), the time played since the last play()
NearEnd == mixer.elapsed >= TrackLen - 1

\* the body of the poll raises: line 1474 with an index past the playlist
PollRaises == get_busy /\ playlist # << >> /\ ~IndexInRange

\* a re-arm inside the try block: skipped when the body raised
PollArmInTry(pending, raised) == IF raised THEN pending ELSE pending + 1

\* line 1492: after(100, self.update_audio_ui), behind the try block
PollArm(pending, raised) == pending + 1

\* the stream is within half a second of the end of its file
StreamNearEnd == mixer.state = "playing" /\ mixer.pos >= TrackLen - 1

\* what a poll finds: no busy stream or an empty playlist (idle), a stream
\* near the end of its file (near), a stream before that (playing)
PollFinds == IF ~get_busy \/ playlist = << >> THEN "idle"
             ELSE IF StreamNearEnd THEN "near" ELSE "playing"

NoPoll == [found |-> "none", advanced |-> FALSE, changed |-> FALSE]

\* update_audio_ui: the poll, which re-arms itself
update_audio_ui ==
  /\ poll_pending > 0
  /\ IF /\ get_busy
        /\ playlist # << >>
        /\ ~PollRaises
        /\ playlist[current_playlist_index + 1].wav_path \in DOMAIN songs
        /\ NearEnd
     THEN PlaySong(NextIndex)
     ELSE UNCHANGED <<current_playlist_index, mixer>>
  /\ poll_pending' = PollArm(poll_pending - 1, PollRaises)
  /\ last_poll' =
       [found |-> PollFinds,
        advanced |-> /\ playlist # << >>
                     /\ current_playlist_index' = NextIndex
                     /\ mixer' = MusicLoadAndPlay(mixer, playlist[NextIndex + 1].wav_path),
        changed |-> \/ current_playlist_index' # current_playlist_index
                    \/ mixer' # mixer]
  /\ UNCHANGED <<formVars, current_cover_path, fsVars, jobVars, playlist, cards,
                 busy_when_paused, last_noop>>

\* the audio device plays half a second of the stream
mixer_advance ==
  /\ mixer.state = "playing"
  /\ mixer.pos < TrackLen
  /\ mixer' = [mixer EXCEPT !.pos = @ + 1, !.elapsed = @ + 1]
  /\ UNCHANGED <<formVars, current_cover_path, fsVars, jobVars, playlist, cards,
                 current_playlist_index, busy_when_paused, poll_pending,
                 last_poll, last_noop>>

\* the stream reaches the end of its file
mixer_end ==
  /\ mixer.state = "playing"
  /\ mixer.pos >= TrackLen
  /\ mixer' = [mixer EXCEPT !.state = "stopped"]
  /\ UNCHANGED <<formVars, current_cover_path, fsVars, jobVars, playlist, cards,
                 current_playlist_index, busy_when_paused, poll_pending,
                 last_poll, last_noop>>

----------------------------------------------------------------------------
(* Specifications *)

\* __init__ on an empty output directory
Init ==
  /\ title_entry = << >>
  /\ lyrics_textbox = LyricsPlaceholder
  /\ style_manual_entry = << >>
  /\ current_cover_path = None
  /\ current_title = << >>
  /\ generating = FALSE
  /\ generate_btn = "normal"
  /\ progress_bar = 0
  /\ songs = << >>
  /\ covers = << >>
  /\ metadata = << >>
  /\ lyrics_txt = << >>
  /\ tags_txt = << >>
  /\ clock = 0
  /\ threads = << >>
  /\ njobs = 0
  /\ after_queue = << >>
  /\ playlist = << >>
  /\ cards = << >>
  /\ current_playlist_index = 0
  /\ mixer = IdleMixer
  /\ busy_when_paused = FALSE
  /\ poll_pending = 1
  /\ last_poll = NoPoll
  /\ last_noop = "none"
  /\ job_log = << >>

\* the steps of the run_generation threads
Worker ==
  \E j \in DOMAIN threads :
    \/ rg_launch(j)
    \/ \E line \in JobLines : rg_read_line(j, line)
    \/ \E rc \in {0, 1}, wrote \in BOOLEAN : rg_wait(j, rc, wrote)
    \/ rg_returncode(j)
    \/ rg_cover_branch(j)
    \/ rg_cover_exists(j)
    \/ rg_cover_rename(j)
    \/ rg_save_metadata(j)

\* the handlers of the form and of the song list
Form ==
  \/ \E t \in TitleInputs : type_title(t)
  \/ \E l \in LyricsInputs : type_lyrics(l)
  \/ \E st \in StyleInputs : type_style(st)
  \/ \E img \in Images : upload_cover(img)
  \/ \E c \in 1..Len(cards) : remix_song(c)
  \/ \E c \in 1..Len(cards) : delete_song(c, TRUE)
  \/ load_existing_songs

\* every handler with the inputs on which it acts; the calls that return at
\* once (a press while generating, a declined deletion) are in SpecEvents
Next ==
  \/ Form
  \/ GenerateAccepted /\ generate_song
  \/ run_callback
  \/ Worker

Spec == Init /\ [][Next]_vars

\* the jobs under an event loop that keeps running, threads that are
\* scheduled and a subprocess that terminates; the user picks titles and
\* covers, remixes and deletes
LiveNext ==
  \/ \E t \in TitleInputs : type_title(t)
  \/ \E img \in Images : upload_cover(img)
  \/ \E c \in 1..Len(cards) : remix_song(c)
  \/ \E c \in 1..Len(cards) : delete_song(c, TRUE)
  \/ GenerateAccepted /\ generate_song
  \/ run_callback
  \/ Worker

FairSpec ==
  /\ Init
  /\ [][LiveNext]_vars
  /\ WF_vars(run_callback)
  /\ WF_vars(Worker)

\* the jobs and the library with every call of the handlers, also the calls
\* that return at once: a press while a job is outstanding, a deletion
\* that is declined
EventNext ==
  \/ \E t \in TitleInputs : type_title(t)
  \/ \E img \in Images : upload_cover(img)
  \/ \E c \in 1..Len(cards) : remix_song(c)
  \/ \E c \in 1..Len(cards), yes \in BOOLEAN : delete_song(c, yes)
  \/ generate_song
  \/ run_callback
  \/ Worker

SpecEvents == Init /\ [][EventNext]_vars
\* audio files left by earlier runs, each with its cover and its metadata:
\* Unknown_9, Unknown_10, Unknown_x and Unknown_-5, oldest first
UnknownSamples ==
  << UnknownPrefix \o <<"9">>, UnknownPrefix \o <<"1", "0">>,
     UnknownPrefix \o <<"x">>, UnknownPrefix \o <<"-", "5">> >>

DisplayInit ==
  /\ title_entry = << >>
  /\ lyrics_textbox = LyricsPlaceholder
  /\ style_manual_entry = << >>
  /\ current_cover_path = None
  /\ current_title = << >>
  /\ generating = FALSE
  /\ generate_btn = "normal"
  /\ progress_bar = 0
  /\ \E I \in SUBSET (1..Len(UnknownSamples)) :
       LET S == { UnknownSamples[i] : i \in I }
           mtime(t) == CHOOSE i \in I : UnknownSamples[i] = t
       IN /\ songs = [t \in S |-> mtime(t)]
          /\ covers = [t \in S |-> "gradient"]
          /\ metadata = [t \in S |-> MetadataOf(t, << >>, << >>, << >>, << >>, t)]
  /\ lyrics_txt = << >>
  /\ tags_txt = << >>
  /\ clock = Len(UnknownSamples)
  /\ threads = << >>
  /\ njobs = 0
  /\ after_queue = << >>
  /\ playlist = get_all_songs(songs, metadata)
  /\ cards = CardsFor(get_all_songs(songs, metadata))
  /\ current_playlist_index = 0
  /\ mixer = IdleMixer
  /\ busy_when_paused = FALSE
  /\ poll_pending = 1
  /\ last_poll = NoPoll
  /\ last_noop = "none"
  /\ job_log = << >>

\* untitled jobs in a row, each subprocess printing up to MaxDisplayLines
\* lines before it exits
DisplayNext ==
  \/ GenerateAccepted /\ generate_song
  \/ run_callback
  \/ \E j \in DOMAIN threads :
       \/ rg_launch(j)
       \/ \E line \in JobLines : ReadLine(j, line, MaxDisplayLines)
       \/ \E rc \in {0, 1}, wrote \in BOOLEAN : rg_wait(j, rc, wrote)
       \/ rg_returncode(j)
       \/ rg_cover_branch(j)
       \/ rg_save_metadata(j)

SpecDisplay == DisplayInit /\ [][DisplayNext]_vars

\* the player on a catalog left by earlier runs: every audio file has its
\* cover and its metadata
PlayerTitles == { <<"a">>, <<"b">>, <<"c">> }
PlayerMtime(t) == IF t = <<"a">> THEN 1 ELSE IF t = <<"b">> THEN 2 ELSE 3

PlayerInit ==
  /\ title_entry = << >>
  /\ lyrics_textbox = LyricsPlaceholder
  /\ style_manual_entry = << >>
  /\ current_cover_path = None
  /\ current_title = << >>
  /\ generating = FALSE
  /\ generate_btn = "normal"
  /\ progress_bar = 0
  /\ \E S \in SUBSET PlayerTitles :
       /\ songs = [t \in S |-> PlayerMtime(t)]
       /\ covers = [t \in S |-> "gradient"]
       /\ metadata = [t \in S |-> MetadataOf(t, <<"l", "a">>, << >>, << >>, << >>, t)]
  /\ lyrics_txt = << >>
  /\ tags_txt = << >>
  /\ clock = 3
  /\ threads = << >>
  /\ njobs = 0
  /\ after_queue = << >>
  /\ playlist = get_all_songs(songs, metadata)
  /\ cards = CardsFor(get_all_songs(songs, metadata))
  /\ current_playlist_index = 0
  /\ mixer = IdleMixer
  /\ busy_when_paused \in BOOLEAN
  /\ poll_pending = 1
  /\ last_poll = NoPoll
  /\ last_noop = "none"
  /\ job_log = << >>

PlayerNext ==
  \/ \E c \in 1..Len(cards) : play_song(c)
  \/ toggle_playback
  \/ previous_song
  \/ next_song
  \/ \E value \in SeekValues, ok \in BOOLEAN : seek_audio(value, ok)
  \/ update_audio_ui
  \/ mixer_advance
  \/ mixer_end
  \/ \E c \in 1..Len(cards), yes \in BOOLEAN : delete_song(c, yes)
  \/ load_existing_songs

SpecPlayer == PlayerInit /\ [][PlayerNext]_vars

\* one job whose subprocess prints up to MaxProgressLines lines
ProgressNext ==
  \/ GenerateAccepted /\ generate_song
  \/ \E j \in DOMAIN threads :
       \/ rg_launch(j)
       \/ \E line \in OutputLines : ReadLine(j, line, MaxProgressLines)
  \/ run_callback

SpecProgress == Init /\ [][ProgressNext]_vars

----------------------------------------------------------------------------
(* Properties *)

CompletionsPending(j) ==
  { i \in 1..Len(after_queue) :
      after_queue[i].kind = "complete" /\ after_queue[i].job = j }

JobOutstanding ==
  \/ DOMAIN threads # {}
  \/ \E i \in 1..Len(after_queue) : after_queue[i].kind = "complete"

\* C1: at most one run_generation thread (with its subprocess) exists at
\* any time, whatever requests, completions and other events came before.
C1_SingleWorker == Cardinality(DOMAIN threads) <= 1

\* the second request has been accepted and its thread is running
C1_Witness == njobs = 2 /\ DOMAIN threads = {2} /\ threads[2].pc = "running"

\* C2: generating is true exactly while a job is outstanding (its thread
\* is alive or its generation_complete has not run); it becomes true only
\* in an accepted generate_song and false only in generation_complete.
C2_IdleGenerating ==
  /\ [](generating <=> JobOutstanding)
  /\ [][/\ (~generating /\ generating') =>
              (njobs' = njobs + 1 /\ DOMAIN threads' = DOMAIN threads \cup {njobs'})
        /\ (generating /\ ~generating') =>
              (/\ after_queue # << >>
               /\ Head(after_queue).kind = "complete"
               /\ after_queue' = Tail(after_queue))]_vars

\* the thread is gone and its completion has not run yet
C2_Witness ==
  /\ generating
  /\ DOMAIN threads = {}
  /\ Len(after_queue) = 1
  /\ after_queue[1].kind = "complete"

\* C3: every accepted request is completed exactly once: generation_complete
\* runs one time for it, with success exactly when the subprocess exited
\* with code zero and the thread raised no exception, and then the
\* application is idle and accepts a request again.
C3_CompletedOnce ==
  /\ [](\A j \in DOMAIN job_log :
          /\ Len(job_log[j].completions) <= 1
          /\ Len(job_log[j].completions) = 1 =>
               /\ job_log[j].completions[1] =
                    (job_log[j].returncode = 0 /\ ~job_log[j].raised)
               /\ j \notin DOMAIN threads
               /\ CompletionsPending(j) = {})
  /\ \A j \in 1..MaxJobs :
       (j \in DOMAIN job_log) ~>
         (/\ j \in DOMAIN job_log
          /\ Len(job_log[j].completions) = 1
          /\ GenerateAccepted)

\* one request completed with success, the next one with failure after an
\* exception that followed exit code zero
C3_Witness ==
  /\ DOMAIN job_log = {1, 2}
  /\ job_log[1].completions = << TRUE >>
  /\ job_log[2].completions = << FALSE >>
  /\ job_log[2].returncode = 0
  /\ job_log[2].raised
  /\ ~generating


\* C4: a job whose subprocess exited with code zero and that reports
\* success has written its metadata and has placed a cover at
\* covers/T.png: the selected cover moved there if one was selected, a
\* gradient placeholder created there otherwise.
C4_CoverPlaced ==
  \A j \in DOMAIN job_log :
    (job_log[j].returncode = 0 /\ job_log[j].saved) =>
      job_log[j].placed = (IF job_log[j].selected THEN "moved" ELSE "created")

\* C5: a job whose subprocess exits with a non-zero code writes no
\* metadata, moves or creates no cover, leaves current_cover_path and the
\* cover and metadata files as they are in its last step and in its
\* generation_complete, and reports failure.
C5_FailureLeavesCatalog ==
  /\ [](\A j \in DOMAIN job_log :
          job_log[j].returncode > 0 =>
            /\ job_log[j].placed = "none"
            /\ ~job_log[j].saved
            /\ \A i \in 1..Len(job_log[j].completions) :
                 ~job_log[j].completions[i])
  /\ [][/\ \A j \in DOMAIN threads :
             (/\ threads[j].pc = "exited"
              /\ threads[j].returncode # 0
              /\ threads' # threads) =>
               /\ j \notin DOMAIN threads'
               /\ after_queue' = Append(after_queue, CompleteCallback(j, FALSE))
               /\ UNCHANGED <<covers, metadata, songs, current_cover_path>>
        /\ (/\ after_queue # << >>
            /\ Head(after_queue).kind = "complete"
            /\ ~Head(after_queue).success
            /\ after_queue' = Tail(after_queue)) =>
               /\ ~generating'
               /\ UNCHANGED <<covers, metadata, songs, current_cover_path,
                              formVars, playlist>>]_vars

\* a job that failed with exit code 1 has completed while an uploaded cover
\* was selected: the temporary cover is still there and still selected
C5_Witness ==
  /\ \E j \in DOMAIN job_log :
       job_log[j].returncode = 1 /\ job_log[j].completions = << FALSE >>
  /\ current_cover_path = TempCover
  /\ TempCover \in DOMAIN covers

\* C6: the audio file, the cover and the metadata of a generated song carry
\* the same key: a job whose subprocess exited with code zero asked for its
\* audio under the title it gives to the cover and to the metadata.
C6_SharedKey ==
  \A j \in DOMAIN threads :
    threads[j].pc \in {"cover", "exists", "rename", "meta"} =>
      threads[j].save_path = threads[j].title

\* C7: get_all_songs has exactly one entry for each audio file, titled by
\* its stem, none for a title without audio, ordered by modification time,
\* the most recently modified first.
C7_Listing ==
  LET list == get_all_songs(songs, metadata) IN
  /\ Len(list) = Cardinality(DOMAIN songs)
  /\ { list[i].title : i \in 1..Len(list) } = DOMAIN songs
  /\ \A i \in 1..Len(list) :
       /\ list[i].wav_path = list[i].title
       /\ \A k \in 1..Len(list) :
            i < k => songs[list[i].title] >= songs[list[k].title]

\* two audio files written at different times, and metadata and a cover of
\* a title that has no audio file
C7_Witness ==
  /\ Cardinality(DOMAIN songs) = 2
  /\ \E t \in DOMAIN metadata : t \notin DOMAIN songs /\ t \in DOMAIN covers

\* the lines of OutputLines that hold "step", "generating" or "progress" in
\* some case
CountingLines ==
  { <<"S", "t", "e", "p", " ", "1", "/", "1", "0">>,
    <<"G", "E", "N", "E", "R", "A", "T", "I", "N", "G", " ", "a", "u", "d", "i", "o">>,
    <<"P", "r", "o", "g", "r", "e", "s", "s", ":", " ", "5", "0", "%">> }

ProgressInRange ==
  /\ progress_bar \in 0..total_steps
  /\ \A i \in 1..Len(after_queue) : after_queue[i].p \in 0..total_steps
  /\ \A j \in DOMAIN threads :
       /\ threads[j].current_step \in 0..total_steps
       /\ threads[j].lines_read = 0 => threads[j].current_step = 0

\* the thread j has read one more line in this step
ReadsLine(j) ==
  /\ j \in DOMAIN threads
  /\ j \in DOMAIN threads'
  /\ threads'[j].lines_read = threads[j].lines_read + 1

\* C8 as stated: the counter starts at 0, stays within 0..100, is unchanged
\* by a line without a keyword and increases by exactly 2 for each line
\* with one.
C8_ExactlyTwo ==
  /\ []ProgressInRange
  /\ [][\A j \in 1..MaxJobs :
          ReadsLine(j) =>
            threads'[j].current_step =
              IF threads'[j].line \in CountingLines
              THEN threads[j].current_step + 2
              ELSE threads[j].current_step]_vars

\* C8 amended: the counter starts at 0, stays within 0..100, never
\* decreases, is unchanged by a line without a keyword and increases by 2
\* for each line with one, up to 100, where it stays; the fraction given to
\* the progress display is within [0, 1].
C8_CappedProgress ==
  /\ []ProgressInRange
  /\ [][\A j \in 1..MaxJobs :
          ReadsLine(j) =>
            /\ threads'[j].current_step >= threads[j].current_step
            /\ threads'[j].current_step =
                 IF threads'[j].line \in CountingLines
                 THEN Min(threads[j].current_step + 2, total_steps)
                 ELSE threads[j].current_step]_vars

\* the counter is at 100 and a further line has been read
C8_Witness ==
  \E j \in DOMAIN threads :
    /\ threads[j].current_step = total_steps
    /\ threads[j].lines_read > 50
    /\ progress_bar = total_steps

\* C9: once the subprocess is launched, its command line holds the lyrics
\* flag exactly when the request's lyrics are non-empty and the tags flag
\* exactly when its style is non-empty, and while it runs the side-file of
\* each flag passed holds this request's text.
C9_SideFiles ==
  \A j \in DOMAIN threads :
    threads[j].pc # "start" =>
      /\ (LyricsFlag \in threads[j].args) <=> (threads[j].lyrics # << >>)
      /\ (TagsFlag \in threads[j].args) <=> (threads[j].style # << >>)
      /\ threads[j].pc = "running" =>
           /\ (LyricsFlag \in threads[j].args) => lyrics_txt = threads[j].lyrics
           /\ (TagsFlag \in threads[j].args) => tags_txt = threads[j].style

\* the second request has lyrics and no style: its subprocess runs with the
\* lyrics flag alone, while tags.txt still holds the style of the first one
C9_Witness ==
  /\ DOMAIN threads = {2}
  /\ threads[2].pc = "running"
  /\ threads[2].args = {LyricsFlag}
  /\ lyrics_txt = threads[2].lyrics
  /\ tags_txt # << >>

\* C10: at most one audio stream is active, whatever was played, toggled,
\* skipped, sought and polled: a song that starts replaces the stream that
\* was active.
C10_OneStream ==
  /\ ActiveStreams(mixer) <= 1
  /\ mixer.channels = {}

\* the third entry plays after another file was the stream
C10_Witness ==
  /\ mixer.state = "playing"
  /\ Len(playlist) = 3
  /\ current_playlist_index = 2
  /\ mixer.music = playlist[3].wav_path
  /\ mixer.pos = 1

\* C11: a poll that finds the playing stream within 0.5 s of the end of
\* its track starts the playlist entry after the current one (the first
\* after the last) and makes its index the current index; a poll that
\* finds no busy stream or an empty playlist changes neither the index nor
\* the stream.
C11_AutoAdvance ==
  /\ last_poll.found = "near" => last_poll.advanced
  /\ last_poll.found = "idle" => ~last_poll.changed

\* C12: exactly one poll is pending in every state, whatever the polls
\* before it found and also after a poll whose body raised, so the poll
\* stays enabled for ever.
C12_OnePollPending == poll_pending = 1 /\ ENABLED update_audio_ui

\* a stream plays while the index is past the playlist: the poll that runs
\* here raises IndexError and leaves this state as it is, its successor
\* pending
C12_Witness ==
  /\ PollRaises
  /\ mixer.state = "playing"
  /\ poll_pending = 1

\* the job j writes its metadata in this step
SavesMetadata(j) ==
  /\ j \in DOMAIN threads
  /\ threads[j].pc = "meta"
  /\ j \notin DOMAIN threads'
  /\ job_log'[j].saved

\* C13: metadata is last-writer-wins per title: the save of a job replaces
\* the metadata file of its title entirely, so load_metadata returns the
\* lyrics, style and cover path of the latest job that saved under the
\* title and leaves the files of other titles alone; load_metadata of a
\* title without a metadata file returns None.
C13_LastWriterWins ==
  /\ [](\A j \in DOMAIN job_log :
          LET t == job_log[j].title IN
          /\ t \notin DOMAIN metadata => load_metadata(metadata, t) = None
          /\ (/\ job_log[j].saved
              /\ t \in DOMAIN metadata
              /\ \A k \in DOMAIN job_log :
                   (k > j /\ job_log[k].saved) => job_log[k].title # t) =>
                /\ load_metadata(metadata, t) # None
                /\ load_metadata(metadata, t)[1].lyrics = job_log[j].lyrics)
  /\ [][\A j \in 1..MaxJobs :
          SavesMetadata(j) =>
            /\ load_metadata(metadata', threads[j].title) =
                 << MetadataOf(threads[j].title, threads[j].lyrics,
                               threads[j].style, << >>, << >>,
                               threads[j].cover_path) >>
            /\ \A t \in DOMAIN metadata \ {threads[j].title} :
                 load_metadata(metadata', t) = load_metadata(metadata, t)]_vars

\* two jobs saved metadata under one title with different lyrics: the file
\* holds the lyrics of the second
C13_Witness ==
  /\ DOMAIN job_log = {1, 2}
  /\ job_log[1].saved /\ job_log[2].saved
  /\ job_log[1].title = job_log[2].title
  /\ job_log[1].lyrics # job_log[2].lyrics
  /\ job_log[2].title \in DOMAIN metadata
  /\ metadata[job_log[2].title].lyrics = job_log[2].lyrics

\* the job j passes the test of the exit code and resolves its output file
ResolvesOutput(j) ==
  /\ j \in DOMAIN threads
  /\ threads[j].pc = "exited"
  /\ j \in DOMAIN threads'
  /\ threads'[j].pc = "cover"

\* C14: a job whose subprocess exited with code zero without a file at the
\* requested save path resolves the most recently modified audio file of
\* the songs directory as its output, and the metadata it records is the
\* metadata the catalog shows for that resolved file.
C14_Reconciled ==
  /\ [][\A j \in 1..MaxJobs :
          (ResolvesOutput(j) /\ threads[j].save_path \notin DOMAIN songs
                            /\ DOMAIN songs # {}) =>
            /\ threads'[j].expected_file \in DOMAIN songs
            /\ \A t \in DOMAIN songs :
                 songs[threads'[j].expected_file] >= songs[t]]_vars
  /\ [][\A j \in 1..MaxJobs :
          (/\ SavesMetadata(j)
           /\ threads[j].expected_file # threads[j].save_path
           /\ threads[j].expected_file \in DOMAIN songs') =>
            SongEntry(metadata', threads[j].expected_file).metadata =
              << MetadataOf(threads[j].title, threads[j].lyrics,
                            threads[j].style, << >>, << >>,
                            threads[j].cover_path) >>]_vars

\* C15: generate_song invoked while a job is outstanding has no effect: no
\* thread is started, current_title, the three inputs, the progress
\* display and the generating flag keep their values, no file is written
\* and no callback is scheduled.
C15_PressIgnored ==
  [][(generate_song /\ generating) =>
       UNCHANGED <<formVars, current_cover_path, fsVars, current_title,
                   generating, generate_btn, progress_bar, threads, njobs,
                   after_queue, job_log, playerVars>>]_vars

\* generate_song has returned at once while the thread of the first job
\* runs and its progress is displayed
C15_Witness ==
  /\ last_noop = "generate_song"
  /\ generating
  /\ progress_bar > 0
  /\ DOMAIN threads = {1}
  /\ njobs = 1

\* the event loop runs a generation_complete callback in this step
RunsCompletion ==
  /\ after_queue # << >>
  /\ Head(after_queue).kind = "complete"
  /\ after_queue' = Tail(after_queue)

\* C16: generation_complete(True) clears the title and style inputs, puts
\* the lyrics input back to its placeholder, sets current_cover_path to
\* None and leaves the playlist equal to the listing of the catalog;
\* generation_complete(False) leaves the three inputs, current_cover_path
\* and the playlist as they were; both re-enable the generate button.
C16_CompletionFrame ==
  [][RunsCompletion =>
       /\ generate_btn' = "normal"
       /\ IF Head(after_queue).success
          THEN /\ title_entry' = << >>
               /\ lyrics_textbox' = LyricsPlaceholder
               /\ style_manual_entry' = << >>
               /\ current_cover_path' = None
               /\ playlist' = get_all_songs(songs, metadata)
          ELSE UNCHANGED <<formVars, current_cover_path, playlist>>]_vars

\* C17: the progress display is set to 0 when a request is accepted and
\* does not decrease until the next request is accepted; every pending
\* progress callback belongs to the job that is outstanding, and none is
\* scheduled behind the generation_complete of its job.
C17_DisplayedProgress ==
  /\ [](\A i \in 1..Len(after_queue) :
          /\ after_queue[i].kind = "progress" =>
               (after_queue[i].job = njobs /\ generating)
          /\ \A k \in (i + 1)..Len(after_queue) :
               ~(/\ after_queue[i].kind = "complete"
                 /\ after_queue[k].kind = "progress"
                 /\ after_queue[k].job = after_queue[i].job))
  /\ [][/\ njobs' = njobs + 1 => progress_bar' = 0
        /\ njobs' = njobs => progress_bar' >= progress_bar]_vars

\* the second job has counted two lines: the display shows the first, the
\* callback of the second is pending, after the first job displayed its own
C17_Witness ==
  /\ njobs = 2
  /\ 2 \in DOMAIN threads
  /\ threads[2].current_step = 4
  /\ progress_bar = 2
  /\ Len(after_queue) = 1
  /\ job_log[1].completions # << >>

\* name is "Unknown_N" with N = 1 when no audio file is named
\* Unknown_<integer>..., and one more than the largest such integer otherwise
IsNextUnknown(name, s) ==
  \E N \in {1} \cup { n + 1 : n \in UnknownNumbers(s) } :
    /\ name = UnknownPrefix \o StrOfInt(N)
    /\ UnknownNumbers(s) = {} => N = 1
    /\ UnknownNumbers(s) # {} =>
         /\ N - 1 \in UnknownNumbers(s)
         /\ \A n \in UnknownNumbers(s) : n < N

\* C18: a request with an empty title runs under "Unknown_N", N being 1
\* when no audio file is named Unknown_<integer>... and one more than the
\* largest such integer otherwise; that name is not the title of an
\* existing audio file, and of untitled requests made in a row none runs
\* under the name of an earlier one that completed with success.
C18_FreshUnknown ==
  /\ [][(njobs' = njobs + 1 /\ Strip(title_entry) = << >>) =>
          /\ IsNextUnknown(current_title', songs)
          /\ current_title' \notin DOMAIN songs
          /\ threads'[njobs'].title = current_title'
          /\ title_entry' = current_title']_vars
  /\ [](\A j, k \in DOMAIN job_log :
          (/\ j < k
           /\ job_log[j].untitled /\ job_log[k].untitled
           /\ job_log[j].completions = << TRUE >>) =>
             job_log[j].title # job_log[k].title)

\* the files of every title other than T are in f2 what they are in f1
OthersKept(f1, f2, T) ==
  /\ DOMAIN f1 \ {T} = DOMAIN f2 \ {T}
  /\ \A t \in DOMAIN f1 \ {T} : f2[t] = f1[t]

RECURSIVE NextTimes(_, _, _)
NextTimes(i, n, k) ==
  IF k = 0 THEN i ELSE NextTimes(NextIndexOf(i, n), n, k - 1)

RECURSIVE PreviousTimes(_, _, _)
PreviousTimes(i, n, k) ==
  IF k = 0 THEN i ELSE PreviousTimes(PreviousIndexOf(i, n), n, k - 1)

\* the stream plays the file of the entry from its start
Plays(mx, entry) ==
  mx.music = entry.wav_path /\ mx.state = "playing" /\ mx.pos = 0

\* C20: with a playlist of n > 0 entries and index i, next_song plays
\* entry (i + 1) mod n and previous_song entry (i - 1) mod n and make
\* that the index; n times next_song, n times previous_song, and
\* next_song followed by previous_song lead back to i; with an empty
\* playlist both change neither the index nor the stream.
C20_Wraps ==
  /\ [](playlist # << >> =>
          LET n == Len(playlist)
              i == current_playlist_index
          IN /\ NextTimes(i, n, n) = i
             /\ PreviousTimes(i, n, n) = i
             /\ PreviousIndexOf(NextIndexOf(i, n), n) = i)
  /\ [][/\ (next_song /\ playlist # << >>) =>
             /\ current_playlist_index' = (current_playlist_index + 1) % Len(playlist)
             /\ Plays(mixer', playlist[current_playlist_index' + 1])
        /\ (previous_song /\ playlist # << >>) =>
             /\ current_playlist_index' = (current_playlist_index - 1) % Len(playlist)
             /\ Plays(mixer', playlist[current_playlist_index' + 1])
        /\ ((next_song \/ previous_song) /\ playlist = << >>) =>
             UNCHANGED <<current_playlist_index, mixer, playlist>>]_vars

\* C21: toggle_playback with an empty playlist changes nothing; with a
\* playing stream it pauses the stream where it is and keeps the index;
\* with no stream it plays the entry at the index, or the last entry when
\* the index is past the playlist; with a paused stream it resumes the
\* stream at the position where it was paused.
C21_Toggle ==
  [][/\ (toggle_playback /\ playlist = << >>) =>
          UNCHANGED <<current_playlist_index, mixer>>
     /\ (toggle_playback /\ playlist # << >> /\ mixer.state = "playing") =>
          /\ mixer' = [mixer EXCEPT !.state = "paused"]
          /\ UNCHANGED current_playlist_index
     /\ (toggle_playback /\ playlist # << >> /\ mixer.state = "stopped") =>
          /\ current_playlist_index' =
               IF current_playlist_index < Len(playlist)
               THEN current_playlist_index ELSE Len(playlist) - 1
          /\ Plays(mixer', playlist[current_playlist_index' + 1])
     /\ (toggle_playback /\ playlist # << >> /\ mixer.state = "paused") =>
          /\ mixer' = [mixer EXCEPT !.state = "playing"]
          /\ UNCHANGED current_playlist_index]_vars

\* C22: after every load_existing_songs, also the one that follows a
\* deletion, the playlist is the listing of the catalog at that moment, so
\* it is empty once the last song is deleted; next_song, previous_song and
\* toggle_playback start no stream on a file that does not exist.
C22_PlaylistIsListing ==
  [][/\ (load_existing_songs \/ \E c \in 1..Len(cards) : delete_song(c, TRUE)) =>
          playlist' = get_all_songs(songs', metadata')
     /\ ((next_song \/ previous_song \/ toggle_playback) /\ mixer' # mixer
         /\ mixer'.state = "playing") =>
          mixer'.music \in DOMAIN songs]_vars

\* C23: with a non-empty playlist the current index is an index of the
\* playlist, 0 <= current_playlist_index < len(playlist), whatever was
\* played, skipped, toggled, deleted and reloaded, so that the poll and
\* seek_audio never index the playlist out of range.
C23_IndexWithinPlaylist ==
  playlist # << >> =>
    /\ current_playlist_index >= 0
    /\ current_playlist_index < Len(playlist)
    /\ ~PollRaises

\* the thread of job j takes its cover step: it moves the selected cover
\* to the place of its title or creates a gradient there
PromotesCover(j) ==
  /\ j \in DOMAIN threads
  /\ threads[j].pc \in {"cover", "rename"}
  /\ threads' # threads

\* C24: the cover step of a job removes or changes the cover file of no
\* other catalog entry: every song with a cover before the step has the
\* same cover after it, unless it has the title of the job.
C24_OtherCoversKept ==
  [][\A j \in 1..MaxJobs :
       PromotesCover(j) =>
         \A t \in (DOMAIN songs \cap DOMAIN covers) \ {threads[j].title} :
           t \in DOMAIN covers' /\ covers'[t] = covers[t]]_vars

\* C25: a job attaches the cover selection that was in effect when its
\* request was accepted: its cover step takes the branch of that selection
\* (a gradient created when none was selected) and the file it moves to the
\* place of its title is the file selected then, whatever was uploaded or
\* loaded by remix_song while the thread ran.
C25_CoverAtAccept ==
  [][\A j \in 1..MaxJobs :
       /\ (PromotesCover(j) /\ threads[j].pc = "cover" /\ j \in DOMAIN threads') =>
            /\ threads'[j].selected = (threads[j].accepted_cover # None)
            /\ threads[j].accepted_cover = None =>
                 covers' = With(covers, threads[j].title, "gradient")
       /\ (PromotesCover(j) /\ threads[j].pc = "rename" /\ j \in DOMAIN threads') =>
            /\ threads[j].accepted_cover \in DOMAIN covers
            /\ covers' = RenameCover(covers, threads[j].accepted_cover,
                                     threads[j].title)]_vars

\* C26: the cover_path a successful job records in its metadata names a
\* file that exists at the moment the metadata is written, whatever covers
\* were uploaded, songs remixed or deleted and jobs failed before.
C26_RecordedCoverExists ==
  [][\A j \in 1..MaxJobs :
       SavesMetadata(j) =>
         /\ threads[j].title \in DOMAIN metadata'
         /\ metadata'[threads[j].title].cover_path # None
         /\ metadata'[threads[j].title].cover_path \in DOMAIN covers']_vars

\* the subprocess of job j writes its audio file in this step
WritesAudio(j) ==
  /\ j \in DOMAIN threads
  /\ threads[j].pc = "running"
  /\ j \in DOMAIN threads'
  /\ threads'[j].pc = "exited"
  /\ songs' # songs

\* C27: every title is mapped to a non-empty audio file name, and a job
\* never writes its audio over the audio file of a job that completed
\* with success under a different title.
C27_TitlesKeptApart ==
  /\ [](\A j \in DOMAIN threads :
          threads[j].pc # "start" => threads[j].save_path # << >>)
  /\ [][\A j \in 1..MaxJobs :
          WritesAudio(j) =>
            \A k \in DOMAIN job_log \ {j} :
              (/\ job_log[k].completions = << TRUE >>
               /\ job_log[k].title # threads[j].title
               /\ threads[j].save_path \in DOMAIN songs) =>
                 SafeTitle(job_log[k].title) # threads[j].save_path]_vars

\* C28: a load_existing_songs that finds entries, also entries whose
\* metadata is None, completes without raising: the playlist is the full
\* listing and every entry has its card, complete with its menu.
C28_EveryEntryDisplayed ==
  [][((\/ load_existing_songs
       \/ \E c \in 1..Len(cards) : delete_song(c, TRUE)
       \/ RunsCompletion /\ Head(after_queue).success)
      /\ get_all_songs(songs', metadata') # << >>) =>
        /\ playlist' = get_all_songs(songs', metadata')
        /\ Len(cards') = Len(playlist')
        /\ \A i \in 1..Len(cards') :
             cards'[i].menu /\ cards'[i].song = playlist'[i]]_vars

====
